---------------------------- MODULE Spec2Model ----------------------------
(***************************************************************************)
(* Model of tripscrape/reviews.py: ReviewScraper.do_scrape, scrape_page,   *)
(* traverse and the database writes they issue.                            *)
(*                                                                         *)
(* A decoded JSON value is a node [t, v, e]:                               *)
(*   t = "dict"  e = the entries <<[k, val], ...>> in insertion order      *)
(*   t = "list"  e = the elements, as entries whose key is ""              *)
(*   t = "int"   v = the scalar (an abstract token for any JSON scalar)    *)
(*   t = "none"  Python None / JSON null                                   *)
(*   t = "str"   the string json.dumps produced from the node in e         *)
(***************************************************************************)
EXTENDS Integers, Sequences, FiniteSets, TLC

\* ------------------------------------------------------------- bounds
NumAttrs == 2
MaxPages == 2
MaxRuns == 2

Attrs == 1..NumAttrs

\* ------------------------------------------------------------- JSON values
None == [t |-> "none", v |-> 0, e |-> <<>>]
Num(n) == [t |-> "int", v |-> n, e |-> <<>>]
Entry(key, val) == [k |-> key, val |-> val]
Dict(entries) == [t |-> "dict", v |-> 0, e |-> entries]
RECURSIVE AsElements(_)
AsElements(vals) ==
    IF Len(vals) = 0 THEN <<>>
    ELSE <<Entry("", Head(vals))>> \o AsElements(Tail(vals))
List(vals) == [t |-> "list", v |-> 0, e |-> AsElements(vals)]

\* ------------------------------------------------------------- traverse
\* A faulty variant of traverse: it also descends into the value found under "reviews".
RECURSIVE traverseDescending(_), traverseDescendingItems(_, _)
traverseDescending(val) ==
    IF val.t \in {"dict", "list"} THEN traverseDescendingItems(val.t, val.e)
    ELSE <<>>
traverseDescendingItems(t, items) ==
    IF Len(items) = 0 THEN <<>>
    ELSE (IF t = "dict" /\ Head(items).k = "reviews"
          THEN <<Head(items).val>> \o traverseDescending(Head(items).val)
          ELSE traverseDescending(Head(items).val))
         \o traverseDescendingItems(t, Tail(items))

\* A faulty variant of traverse: after the "reviews" entry of an object it does not
\* go on with the object's other keys.
RECURSIVE traverseStopping(_), traverseStoppingItems(_, _)
traverseStopping(val) ==
    IF val.t \in {"dict", "list"} THEN traverseStoppingItems(val.t, val.e)
    ELSE <<>>
traverseStoppingItems(t, items) ==
    IF Len(items) = 0 THEN <<>>
    ELSE IF t = "dict" /\ Head(items).k = "reviews" THEN <<Head(items).val>>
    ELSE traverseStopping(Head(items).val) \o traverseStoppingItems(t, Tail(items))

\* The sequence of values the generator traverse(val) yields, in yield order.
RECURSIVE traverseFrom(_), traverseItems(_, _)
traverseFrom(val) ==
    IF val.t \in {"dict", "list"} THEN traverseItems(val.t, val.e)
    ELSE <<>>
traverseItems(t, items) ==
    IF Len(items) = 0 THEN <<>>
    ELSE (IF t = "dict" /\ Head(items).k = "reviews"
          THEN <<Head(items).val>>
          ELSE traverseFrom(Head(items).val))
         \o traverseItems(t, Tail(items))
traverse(val) == traverseFrom(val)


\* ------------------------------------------------------------- Python values
\* The outcome of an expression that raised: the exception's type.
KeyError == [t |-> "KeyError", v |-> 0, e |-> <<>>]
TypeError == [t |-> "TypeError", v |-> 0, e |-> <<>>]
IsExc(x) == x.t \in {"KeyError", "TypeError"}

HasKey(d, key) == \E i \in 1..Len(d.e) : d.e[i].k = key
ValueAt(d, key) == d.e[CHOOSE i \in 1..Len(d.e) : d.e[i].k = key].val

\* x[key] for a string key: KeyError on a dict without the key, TypeError on
\* anything that is not a dict; an exception raised earlier propagates.
Subscript(x, key) ==
    IF IsExc(x) THEN x
    ELSE IF x.t = "dict" THEN (IF HasKey(x, key) THEN ValueAt(x, key) ELSE KeyError)
    ELSE TypeError

\* bool(x)
Truthy(x) ==
    CASE x.t = "none" -> FALSE
      [] x.t = "int" -> x.v # 0
      [] x.t \in {"dict", "list"} -> Len(x.e) > 0
      [] OTHER -> TRUE

\* json.dumps(x): a string, also for None ("null"); never x itself.
JsonDumps(x) == [t |-> "str", v |-> 0, e |-> <<Entry("", x)>>]

\* ------------------------------------------------------------- raw records
RequiredKeys == <<"id", "title", "rating", "text", "publishedDate">>

\* Drops from dict d the entries whose key is in missing.
Without(d, missing) ==
    LET Keep(en) == en.k \notin missing
    IN  Dict(SelectSeq(d.e, Keep))

\* One raw review record of the page data, by user usr, lacking the keys in
\* missing (at whatever depth they belong).
RawRecord(id, usr, missing) ==
    LET counts == Without(Dict(<<Entry("sumAllUgc", Num(id + 1)),
                                 Entry("helpfulVote", Num(id + 2))>>), missing)
        route == Without(Dict(<<Entry("url", Num(usr))>>), missing)
        profile == Without(Dict(<<Entry("route", route),
                                  Entry("hometown", Num(id + 3)),
                                  Entry("contributionCounts", counts)>>), missing)
    IN  Without(Dict(<<Entry("id", Num(id)),
                       Entry("title", Num(id + 4)),
                       Entry("rating", Num(5)),
                       Entry("text", Num(id + 5)),
                       Entry("publishedDate", Num(id + 6)),
                       Entry("userProfile", profile)>>), missing)

\* ------------------------------------------------------------- the site
\* The data of review page i (0-based) of attraction attr: three shapes, with
\* review ids that are unique to the attraction. Review attr*100+1 is listed
\* on two pages; user 901 wrote several reviews.
PageBlob(attr, i) ==
    LET b == attr * 100 + (i \div 3) * 30
    IN  CASE i % 3 = 0 ->
               Dict(<<Entry("pageManifest", Dict(<<>>)),
                      Entry("x", Dict(<<Entry("reviews",
                          List(<<RawRecord(b + 1, 901, {}),
                                 RawRecord(b + 11, 902, {"userProfile"})>>))>>)),
                      Entry("y", List(<<Dict(<<Entry("reviews", List(<<>>))>>)>>))>>)
          [] i % 3 = 1 ->
               Dict(<<Entry("pageManifest", Dict(<<>>)),
                      Entry("reviews", List(<<>>)),
                      Entry("z", Dict(<<Entry("n", Num(1)), Entry("reviews",
                          List(<<RawRecord(b + 1, 901, {}),
                                 RawRecord(b + 21, 901, {"hometown"})>>))>>))>>)
          [] OTHER ->
               Dict(<<Entry("pageManifest", Dict(<<>>)),
                      Entry("reviews", List(<<RawRecord(b + 2, 903, {"url"})>>))>>)

PagesOf(attr, n) == [i \in 1..n |-> PageBlob(attr, i - 1)]

\* A decodable blob in which the key "reviews" occurs nowhere.
EmptyTreeBlob == Dict(<<Entry("pageManifest", Dict(<<Entry("n", Num(1))>>))>>)

\* What get_attr_details finds for the attraction: (location, num_reviews)
\* and the number of review pages.
Location(attr) == List(<<Num(attr), Num(attr + 50)>>)
SiteEntry(attr, n) ==
    [location |-> Location(attr), num_reviews |-> Num(attr + 10),
     pages |-> PagesOf(attr, n)]

\* The sites of the model: the attractions have 0..MaxPages review pages,
\* attraction by attraction one page more, starting anywhere.
Sites ==
    { [id \in Attrs |-> SiteEntry(id, (first + id) % (MaxPages + 1))] :
        first \in 0..MaxPages }

\* ------------------------------------------------------------- HTTP
\* A response: a transport failure, or a body in which the assignment marker
\* is present or not and the captured text is valid JSON (after the first key
\* is re-quoted) or not.
TransportFailure == [ok |-> FALSE, marker |-> FALSE, valid |-> FALSE, blob |-> None]
NoMarkerBody == [ok |-> TRUE, marker |-> FALSE, valid |-> FALSE, blob |-> None]
BadJsonBody == [ok |-> TRUE, marker |-> TRUE, valid |-> FALSE, blob |-> None]
Body(blob) == [ok |-> TRUE, marker |-> TRUE, valid |-> TRUE, blob |-> blob]

\* re.search(r"window\.__WEB_CONTEXT__=(.*?});", text): is there a match.
ReSearchMatches(resp) == resp.marker

\* json.loads(data.replace(...)) succeeds on the captured text.
JsonLoadsOk(text) == text.valid

\* ------------------------------------------------------------- record mapping
\* Review() and User() as constructed: every field None.
NewReview ==
    [ID |-> None, title |-> None, rating |-> None, date |-> None, full |-> None,
     attr_ID |-> None, user_profile |-> None]
NewUser ==
    [profile |-> None, location |-> None, contributions |-> None,
     helpful_votes |-> None]

\* r["userProfile"]["route"]["url"] and the other optional paths.
ProfileUrl(r) == Subscript(Subscript(Subscript(r, "userProfile"), "route"), "url")
Hometown(r) == Subscript(Subscript(r, "userProfile"), "hometown")
SumAllUgc(r) ==
    Subscript(Subscript(Subscript(r, "userProfile"), "contributionCounts"), "sumAllUgc")
HelpfulVote(r) ==
    Subscript(Subscript(Subscript(r, "userProfile"), "contributionCounts"), "helpfulVote")

\* Faulty variant: the read of publishedDate does not count as required.
RequiredExcButDate(r) ==
    LET bad == { i \in 1..(Len(RequiredKeys) - 1) :
                   IsExc(Subscript(r, RequiredKeys[i])) }
    IN  IF bad = {} THEN None
        ELSE Subscript(r, RequiredKeys[CHOOSE i \in bad : \A j \in bad : i <= j])

\* The exception the required assignments raise for r, None when none does.
RequiredExc(r) ==
    LET bad == { i \in 1..Len(RequiredKeys) : IsExc(Subscript(r, RequiredKeys[i])) }
    IN  IF bad = {} THEN None
        ELSE Subscript(r, RequiredKeys[CHOOSE i \in bad : \A j \in bad : i <= j])

\* The Review built from raw record r.
MapReview(r, attr_ID) ==
    [NewReview EXCEPT
        !.ID = Subscript(r, "id"),
        !.title = Subscript(r, "title"),
        !.rating = Subscript(r, "rating"),
        !.full = Subscript(r, "text"),
        !.attr_ID = Num(attr_ID),
        !.date = Subscript(r, "publishedDate"),
        !.user_profile = IF IsExc(ProfileUrl(r)) THEN @ ELSE ProfileUrl(r)]

\* Faulty variant: the four optional fields share one try, so the first
\* missing one leaves the later ones unmapped.
MapUserOneTry(r) ==
    LET ok1 == ~IsExc(ProfileUrl(r))
        ok2 == ok1 /\ ~IsExc(Hometown(r))
        ok3 == ok2 /\ ~IsExc(SumAllUgc(r))
        ok4 == ok3 /\ ~IsExc(HelpfulVote(r))
    IN  [NewUser EXCEPT
            !.profile = IF ok1 THEN ProfileUrl(r) ELSE @,
            !.location = IF ok2 THEN JsonDumps(Hometown(r)) ELSE @,
            !.contributions = IF ok3 THEN SumAllUgc(r) ELSE @,
            !.helpful_votes = IF ok4 THEN HelpfulVote(r) ELSE @]

\* The User built from raw record r.
MapUser(r) ==
    [NewUser EXCEPT
        !.profile = IF IsExc(ProfileUrl(r)) THEN @ ELSE ProfileUrl(r),
        !.location = IF IsExc(Hometown(r)) THEN @ ELSE JsonDumps(Hometown(r)),
        !.contributions = IF IsExc(SumAllUgc(r)) THEN @ ELSE SumAllUgc(r),
        !.helpful_votes = IF IsExc(HelpfulVote(r)) THEN @ ELSE HelpfulVote(r)]

\* The message print_missing_info writes.
MissingInfo(info_type, attr_ID, page_no, review_no, url) ==
    [info |-> info_type, attr |-> attr_ID, page |-> page_no + 1,
     review |-> review_no + 1, url |-> url]

\* The messages written while mapping r, in order.
MissingInfos(r, attr_ID, page_no, review_no, url) ==
    (IF IsExc(ProfileUrl(r))
     THEN <<MissingInfo("user profile", attr_ID, page_no, review_no, url)>> ELSE <<>>)
    \o (IF IsExc(Hometown(r))
        THEN <<MissingInfo("user location", attr_ID, page_no, review_no, url)>> ELSE <<>>)
    \o (IF IsExc(SumAllUgc(r))
        THEN <<MissingInfo("user contributions", attr_ID, page_no, review_no, url)>>
        ELSE <<>>)
    \o (IF IsExc(HelpfulVote(r))
        THEN <<MissingInfo("helpful", attr_ID, page_no, review_no, url)>> ELSE <<>>)

\* ------------------------------------------------------------- database writes
\* Faulty variant: the INSERT without ON CONFLICT DO NOTHING semantics.
update_review_always(tbl, review) == Append(tbl, review)

\* INSERT INTO reviews ... ON CONFLICT DO NOTHING (ID is the key).
update_review(tbl, review) ==
    IF \E i \in 1..Len(tbl) : tbl[i].ID = review.ID THEN tbl
    ELSE Append(tbl, review)

\* Faulty variant: the user is inserted whether or not it has a profile.
update_user_unguarded(tbl, user) ==
    IF \E i \in 1..Len(tbl) : tbl[i].profile = user.profile THEN tbl
    ELSE Append(tbl, user)

\* Faulty variant: a conflicting row is replaced (ON CONFLICT DO UPDATE).
update_user_overwriting(tbl, user) ==
    IF user.profile # None
    THEN (IF \E i \in 1..Len(tbl) : tbl[i].profile = user.profile
          THEN [i \in 1..Len(tbl) |->
                   IF tbl[i].profile = user.profile THEN user ELSE tbl[i]]
          ELSE Append(tbl, user))
    ELSE tbl

\* Faulty variant: the INSERT is not issued.
update_user_dropped(tbl, user) == tbl

\* INSERT INTO users ... ON CONFLICT DO NOTHING, only for a user with a profile.
update_user(tbl, user) ==
    IF user.profile # None
    THEN (IF \E i \in 1..Len(tbl) : tbl[i].profile = user.profile THEN tbl
          ELSE Append(tbl, user))
    ELSE tbl

\* attr.location[i] for i in {0, 1}.
LocationAt(attr, i) ==
    IF attr.location.t = "list" /\ Len(attr.location.e) > i
    THEN attr.location.e[i + 1].val
    ELSE TypeError

\* Faulty variant: the UPDATE is not issued.
update_attraction_skipped(tbl, attr) == tbl

\* UPDATE attractions SET geom = ST_MakePoint(location[1], location[0]),
\* num_reviews = json.dumps(num_reviews) WHERE id = attr.ID
update_attraction(tbl, attr) ==
    [tbl EXCEPT ![attr.ID].geom = List(<<LocationAt(attr, 1), LocationAt(attr, 0)>>),
                ![attr.ID].num_reviews = JsonDumps(attr.num_reviews)]

\* UPDATE attractions SET scraped = boolean WHERE id = attr.ID
set_scraped(tbl, attr, boolean) == [tbl EXCEPT ![attr.ID].scraped = boolean]

\* Faulty variant: the query selects the rows that are already scraped.
read_attractions_scraped(tbl) == { id \in DOMAIN tbl : tbl[id].scraped }

\* SELECT id, url FROM attractions WHERE scraped = False (attr_types = "all").
read_attractions(tbl) == { id \in DOMAIN tbl : ~tbl[id].scraped }

\* A category selector: a string, or a tuple of category names.
StrSelector(s, n) == [t |-> "str", s |-> s, items |-> <<>>, len |-> n]
TupleSelector(items) == [t |-> "tuple", s |-> "", items |-> items, len |-> Len(items)]
AllSelector == StrSelector("all", 3)

\* The branch read_attractions takes for attr_types: "all" executes the
\* template; a selector of length 1 or more appends to the template a second
\* WHERE clause; a selector of length 0 that is not "all" meets no branch, and
\* no query is executed.
QueryBranch(sel) ==
    IF sel.t = "str" /\ sel.s = "all" THEN "all"
    ELSE IF sel.len = 1 THEN "one"
    ELSE IF sel.len > 1 THEN "many"
    ELSE "none"

\* The orders in which the cursor may deliver the rows (no ORDER BY).
RowOrders(ids) ==
    { s \in [1..Cardinality(ids) -> ids] : \A i, j \in DOMAIN s : i # j => s[i] # s[j] }

\* generate_page_links(url, amount): one link per page index 0..amount-1.
generate_page_links(url, amount) == [i \in 1..amount |-> [attr |-> url, page |-> i - 1]]

\* ------------------------------------------------------------- state
VARIABLES
    site,            \* the site: per attraction its details and review pages
    attr_types,      \* self._attr_types, the category selector
    attractions,     \* table attractions: id -> [scraped, geom, num_reviews]
    reviewsTbl,      \* table reviews, rows in insertion order
    usersTbl,        \* table users, rows in insertion order
    runs,            \* number of process runs started
    pc,              \* position of the run in do_scrape / scrape_page
    exc,             \* the exception that ended the run, if any
    cursor,          \* db_iter_cur: the rows not yet fetched
    a,               \* the Attraction being processed
    number_of_pages, \* the page count the detail extractor returned
    links,           \* the page links of a
    index,           \* enumerate(links) position
    text,            \* the captured text of the last response
    data,            \* the decoded blob
    traverser,       \* what the peeked generator has still to yield
    reviewsIter,     \* what the generator of the for loop has still to yield
    reviews,         \* the candidate list being mapped
    ridx,            \* enumerate(reviews) position
    review,          \* the Review under construction
    user,            \* the User under construction
    written,         \* reviews handed to update_review by this scrape_page call
    log,             \* messages printed by this scrape_page call
    pagesDone,       \* per attraction: page indices scrape_page returned for
    scrapedCalls,    \* per attraction: set_scraped calls issued in this run
    everDone,        \* the <<attraction, page>> scrape_page ever returned for
    partial,         \* the attraction the last run left unscraped with reviews written
    lastIo           \* what the process did last, of GET and sleep

vars ==
    <<site, attr_types, attractions, reviewsTbl, usersTbl, runs, pc, exc, cursor, a,
      number_of_pages, links, index, text, data, traverser, reviewsIter, reviews,
      ridx, review, user,
      written, log, pagesDone, scrapedCalls, everDone, partial, lastIo>>

dbVars == <<attractions, reviewsTbl, usersTbl>>
loopVars == <<cursor, a, number_of_pages, links, index>>
pageVars == <<text, data, traverser, reviewsIter, reviews, ridx, review, user>>
histVars == <<written, log, pagesDone, scrapedCalls, everDone, partial>>

NoExc == [type |-> "", line |-> 0]
NoAttraction == [ID |-> 0, location |-> None, num_reviews |-> None]
NoText == [ok |-> FALSE, marker |-> FALSE, valid |-> FALSE, blob |-> None]

\* The memory of a process that has just started.
FreshLocals ==
    /\ exc' = NoExc
    /\ cursor' = <<>>
    /\ a' = NoAttraction
    /\ number_of_pages' = 0
    /\ links' = <<>>
    /\ index' = 0
    /\ text' = NoText
    /\ data' = None
    /\ traverser' = <<>>
    /\ reviewsIter' = <<>>
    /\ reviews' = None
    /\ ridx' = 0
    /\ review' = NewReview
    /\ user' = NewUser
    /\ written' = <<>>
    /\ log' = <<>>
    /\ lastIo' = "none"

\* An attractions row before any run has written to it.
NewRow(scraped) == [scraped |-> scraped, geom |-> None, num_reviews |-> None]

InitRun ==
    /\ reviewsTbl = <<>>
    /\ usersTbl = <<>>
    /\ runs = 1
    /\ pc = "do_scrape"
    /\ exc = NoExc
    /\ cursor = <<>>
    /\ a = NoAttraction
    /\ number_of_pages = 0
    /\ links = <<>>
    /\ index = 0
    /\ text = NoText
    /\ data = None
    /\ traverser = <<>>
    /\ reviewsIter = <<>>
    /\ reviews = None
    /\ ridx = 0
    /\ review = NewReview
    /\ user = NewUser
    /\ written = <<>>
    /\ log = <<>>
    /\ pagesDone = [id \in Attrs |-> {}]
    /\ scrapedCalls = [id \in Attrs |-> 0]
    /\ everDone = {}
    /\ partial = {}
    /\ lastIo = "none"

\* main() constructs the scraper with attr_types = "all".
Init ==
    /\ site \in Sites
    /\ attr_types = AllSelector
    /\ attractions = [id \in Attrs |-> NewRow(FALSE)]
    /\ InitRun

\* The responses the server may give for a link: the page's data, or one of
\* the transient failures.
ServerResponses(link) ==
    { TransportFailure, NoMarkerBody, BadJsonBody, Body(EmptyTreeBlob),
      Body(site[link.attr].pages[link.page + 1]) }

Raise(type, line) ==
    /\ pc' = "raised"
    /\ exc' = [type |-> type, line |-> line]

\* ------------------------------------------------------------- do_scrape
\* Line 299: the query runs once; the cursor holds its result. The server
\* rejects the statement with two WHERE clauses (lines 77, 83); with no query
\* executed the fetchone of line 301 has no result set and raises.
ReadAttractions ==
    /\ pc = "do_scrape"
    /\ CASE QueryBranch(attr_types) = "all" ->
               /\ cursor' \in RowOrders(read_attractions(attractions))
               /\ pc' = "fetchone"
               /\ UNCHANGED exc
         [] QueryBranch(attr_types) = "one" ->
               /\ Raise("SyntaxError", 77)
               /\ UNCHANGED cursor
         [] QueryBranch(attr_types) = "many" ->
               /\ Raise("SyntaxError", 83)
               /\ UNCHANGED cursor
         [] OTHER ->
               /\ Raise("ProgrammingError", 301)
               /\ UNCHANGED cursor
    /\ UNCHANGED <<site, attr_types, lastIo, dbVars, runs, a, number_of_pages, links,
                   index, pageVars, histVars>>

\* Lines 301-307: the next row, or the end of the loop.
FetchOne ==
    /\ pc = "fetchone"
    /\ IF Len(cursor) = 0
       THEN /\ pc' = "returned"
            /\ UNCHANGED <<cursor, a, pagesDone>>
       ELSE /\ a' = [NoAttraction EXCEPT !.ID = Head(cursor)]
            /\ cursor' = Tail(cursor)
            /\ pagesDone' = [pagesDone EXCEPT ![Head(cursor)] = {}]
            /\ pc' = "get_attr_details"
    /\ UNCHANGED <<site, attr_types, lastIo, dbVars, runs, exc, number_of_pages, links,
                   index, pageVars, written, log, scrapedCalls, everDone, partial>>

\* Lines 308-310: the detail extractor.
GetAttrDetails ==
    /\ pc = "get_attr_details"
    /\ a' = [a EXCEPT !.location = site[a.ID].location,
                      !.num_reviews = site[a.ID].num_reviews]
    /\ number_of_pages' = Len(site[a.ID].pages)
    /\ pc' = "update_attraction"
    /\ UNCHANGED <<site, attr_types, lastIo, dbVars, runs, exc, cursor, links, index,
                   pageVars, histVars>>

\* Line 312; attr.location[1] raises when the location is None.
UpdateAttraction ==
    /\ pc = "update_attraction"
    /\ IF IsExc(LocationAt(a, 1))
       THEN /\ Raise("TypeError", 96)
            /\ UNCHANGED attractions
       ELSE /\ attractions' = update_attraction(attractions, a)
            /\ pc' = "generate_page_links"
            /\ UNCHANGED exc
    /\ UNCHANGED <<site, attr_types, lastIo, reviewsTbl, usersTbl, runs, cursor, a,
                   number_of_pages, links, index, pageVars, histVars>>

\* Line 314.
GeneratePageLinks ==
    /\ pc = "generate_page_links"
    /\ links' = generate_page_links(a.ID, number_of_pages)
    /\ index' = 0
    /\ pc' = "for_link"
    /\ UNCHANGED <<site, attr_types, lastIo, dbVars, runs, exc, cursor, a,
                   number_of_pages, pageVars, histVars>>

\* Faulty variant: the loop over the links stops one link early.
HasNextLinkButLast(i, ls) == i < Len(ls) - 1

\* for index, link in enumerate(links): is there another link.
HasNextLink(i, ls) == i < Len(ls)

\* Lines 316-317, 218: the next link enters scrape_page; after the last one
\* the loop ends.
ForLink ==
    /\ pc = "for_link"
    /\ IF HasNextLink(index, links)
       THEN /\ pc' = "get"
            /\ written' = <<>>
            /\ log' = <<>>
       ELSE /\ pc' = "set_scraped"
            /\ UNCHANGED <<written, log>>
    /\ UNCHANGED <<site, attr_types, lastIo, dbVars, runs, exc, cursor, a,
                   number_of_pages, links, index, pageVars, pagesDone, scrapedCalls,
                   everDone, partial>>

\* Line 318: the sleep after the page.
SleepPage ==
    /\ pc = "sleep_page"
    /\ index' = index + 1
    /\ lastIo' = "sleep"
    /\ pc' = "for_link"
    /\ UNCHANGED <<site, attr_types, dbVars, runs, exc, cursor, a, number_of_pages,
                   links, pageVars, histVars>>

\* Line 320.
SetScraped ==
    /\ pc = "set_scraped"
    /\ attractions' = set_scraped(attractions, a, TRUE)
    /\ scrapedCalls' = [scrapedCalls EXCEPT ![a.ID] = @ + 1]
    /\ pc' = "fetchone"
    /\ UNCHANGED <<site, attr_types, lastIo, reviewsTbl, usersTbl, runs, exc, cursor, a,
                   number_of_pages, links, index, pageVars, written, log, pagesDone,
                   everDone, partial>>

\* ------------------------------------------------------------- scrape_page
\* Faulty variant: every call is given the first link.
linkFirst == links[1]

\* The link of the loop's current iteration.
link == links[index + 1]

\* Lines 220-228: the GET and the search for the marker, inside the try.
Get ==
    /\ pc = "get"
    /\ \E resp \in ServerResponses(link) :
         IF resp.ok /\ ReSearchMatches(resp)
         THEN /\ text' = resp
              /\ pc' = "loads"
         ELSE /\ pc' = "sleep_reload"
              /\ UNCHANGED text
    /\ lastIo' = "get"
    /\ UNCHANGED <<site, attr_types, dbVars, runs, exc, loopVars, data, traverser,
                   reviewsIter, reviews, ridx, review, user, histVars>>

\* Lines 225-227: sleep(1), then the loop fetches again.
SleepReload ==
    /\ pc = "sleep_reload"
    /\ lastIo' = "sleep"
    /\ pc' = "get"
    /\ UNCHANGED <<site, attr_types, dbVars, runs, exc, loopVars, pageVars, histVars>>

\* Lines 230-233: the decoding, outside the try, and the first generator.
Loads ==
    /\ pc = "loads"
    /\ IF JsonLoadsOk(text)
       THEN /\ data' = text.blob
            /\ traverser' = traverse(text.blob)
            /\ pc' = "next_traverser"
            /\ UNCHANGED exc
       ELSE /\ Raise("JSONDecodeError", 231)
            /\ UNCHANGED <<data, traverser>>
    /\ UNCHANGED <<site, attr_types, lastIo, dbVars, runs, loopVars, text, reviewsIter,
                   reviews, ridx, review, user, histVars>>

\* Faulty variant: a first yielded list that is empty counts as exhausted too.
ExhaustedOrEmptyFirst(gen) == Len(gen) = 0 \/ ~Truthy(Head(gen))

\* next(traverser, _exhausted) == _exhausted
Exhausted(gen) == Len(gen) = 0

\* Faulty variant: the for loop goes on with the generator that was peeked.
ReviewsGeneratorPeeked(d, peeked) == peeked

\* Line 245: the generator of the for loop is a new traverse(data), not the
\* peeked one.
ReviewsGenerator(d, peeked) == traverse(d)

\* Lines 237-238, 245: the peek; an exhausted generator means another fetch,
\* anything else starts the for loop over a new generator.
NextTraverser ==
    /\ pc = "next_traverser"
    /\ IF Exhausted(traverser)
       THEN /\ pc' = "reget"
            /\ UNCHANGED <<traverser, reviewsIter>>
       ELSE /\ traverser' = Tail(traverser)
            /\ reviewsIter' = ReviewsGenerator(data, Tail(traverser))
            /\ pc' = "for_reviews"
    /\ UNCHANGED <<site, attr_types, lastIo, dbVars, runs, exc, loopVars, text, data,
                   reviews, ridx, review, user, histVars>>

\* Lines 239-243: the fetch and the decoding of the retry loop, in no try.
Reget ==
    /\ pc = "reget"
    /\ \E resp \in ServerResponses(link) :
         IF ~resp.ok
         THEN /\ Raise("ConnectionError", 239)
              /\ UNCHANGED <<text, data, traverser>>
         ELSE IF ~ReSearchMatches(resp)
         THEN /\ Raise("AttributeError", 240)
              /\ UNCHANGED <<text, data, traverser>>
         ELSE IF ~JsonLoadsOk(resp)
         THEN /\ Raise("JSONDecodeError", 242)
              /\ text' = resp
              /\ UNCHANGED <<data, traverser>>
         ELSE /\ text' = resp
              /\ data' = resp.blob
              /\ traverser' = traverse(resp.blob)
              /\ pc' = "next_traverser"
              /\ UNCHANGED exc
    /\ lastIo' = "reget"
    /\ UNCHANGED <<site, attr_types, dbVars, runs, loopVars, reviewsIter, reviews, ridx,
                   review, user, histVars>>

\* Lines 245-247, 292-293: the next candidate list; scrape_page returns after
\* the last one. A true value that is no list cannot be mapped: enumerate
\* raises on a scalar, r["id"] raises on the keys of a dict.
ForReviews ==
    /\ pc = "for_reviews"
    /\ IF Len(reviewsIter) = 0
       THEN /\ pagesDone' = [pagesDone EXCEPT ![a.ID] = @ \cup {index}]
            /\ everDone' = everDone \cup {<<a.ID, index>>}
            /\ pc' = "sleep_page"
            /\ UNCHANGED <<exc, reviewsIter, reviews, ridx, log>>
       ELSE /\ reviews' = Head(reviewsIter)
            /\ reviewsIter' = Tail(reviewsIter)
            /\ UNCHANGED <<pagesDone, everDone>>
            /\ IF ~Truthy(Head(reviewsIter))
               THEN /\ log' = Append(log, MissingInfo("reviews", a.ID, index, -2, link))
                    /\ UNCHANGED <<pc, exc, ridx>>
               ELSE IF Head(reviewsIter).t = "list"
               THEN /\ ridx' = 0
                    /\ pc' = "for_r"
                    /\ UNCHANGED <<exc, log>>
               ELSE IF Head(reviewsIter).t = "dict"
               THEN /\ Raise("TypeError", 251)
                    /\ UNCHANGED <<ridx, log>>
               ELSE /\ Raise("TypeError", 247)
                    /\ UNCHANGED <<ridx, log>>
    /\ UNCHANGED <<site, attr_types, lastIo, dbVars, runs, loopVars, text, data,
                   traverser, review, user, written, scrapedCalls, partial>>

\* Lines 247-287: the next record of the list is mapped; a missing required
\* field raises.
ForR ==
    /\ pc = "for_r"
    /\ IF ridx < Len(reviews.e)
       THEN LET r == reviews.e[ridx + 1].val
            IN  IF IsExc(RequiredExc(r))
                THEN /\ Raise(RequiredExc(r).t, 251)
                     /\ UNCHANGED <<review, user, log>>
                ELSE /\ review' = MapReview(r, a.ID)
                     /\ user' = MapUser(r)
                     /\ log' = log \o MissingInfos(r, a.ID, index, ridx, link)
                     /\ pc' = "update_user"
                     /\ UNCHANGED exc
       ELSE /\ pc' = "for_reviews"
            /\ UNCHANGED <<exc, review, user, log>>
    /\ UNCHANGED <<site, attr_types, lastIo, dbVars, runs, loopVars, text, data,
                   traverser, reviewsIter, reviews, ridx, written, pagesDone,
                   scrapedCalls, everDone, partial>>

\* Line 289.
UpdateUser ==
    /\ pc = "update_user"
    /\ usersTbl' = update_user(usersTbl, user)
    /\ pc' = "update_review"
    /\ UNCHANGED <<site, attr_types, lastIo, attractions, reviewsTbl, runs, exc,
                   loopVars, pageVars, histVars>>

\* Line 290, and the step of the enumerate.
UpdateReview ==
    /\ pc = "update_review"
    /\ reviewsTbl' = update_review(reviewsTbl, review)
    /\ written' = Append(written, review)
    /\ ridx' = ridx + 1
    /\ pc' = "for_r"
    /\ UNCHANGED <<site, attr_types, lastIo, attractions, usersTbl, runs, exc, loopVars,
                   text, data, traverser, reviewsIter, reviews, review, user, log,
                   pagesDone, scrapedCalls, everDone, partial>>

\* ------------------------------------------------------------- the process
Running == pc \notin {"returned", "raised", "killed"}

\* What a run that ends now leaves behind half done: the attraction that is
\* not marked scraped although reviews of it are written, with their number.
LeftPartial ==
    { [id |-> id,
       rows |-> Cardinality({ i \in 1..Len(reviewsTbl) :
                                reviewsTbl[i].attr_ID = Num(id) })] :
        id \in { x \in Attrs : /\ x = a.ID
                               /\ ~attractions[x].scraped
                               /\ \E i \in 1..Len(reviewsTbl) :
                                     reviewsTbl[i].attr_ID = Num(x) } }

\* The pages that count as done for the next run: those of the attractions
\* that are marked scraped.
PagesDoneKept == [id \in Attrs |-> IF attractions[id].scraped THEN pagesDone[id] ELSE {}]

\* The process is terminated from outside: its memory is gone, what it has
\* committed stays.
Kill ==
    /\ Running
    /\ pc' = "killed"
    /\ FreshLocals
    /\ partial' = LeftPartial
    /\ pagesDone' = PagesDoneKept
    /\ scrapedCalls' = [id \in Attrs |-> 0]
    /\ UNCHANGED <<site, attr_types, dbVars, runs, everDone>>

\* main() is started again on the same database, with a new memory.
Restart ==
    /\ ~Running
    /\ runs < MaxRuns
    /\ runs' = runs + 1
    /\ pc' = "do_scrape"
    /\ FreshLocals
    /\ partial' = IF pc = "killed" THEN partial ELSE LeftPartial
    /\ pagesDone' = PagesDoneKept
    /\ scrapedCalls' = [id \in Attrs |-> 0]
    /\ UNCHANGED <<site, attr_types, dbVars, everDone>>

Next ==
    \/ ReadAttractions
    \/ FetchOne
    \/ GetAttrDetails
    \/ UpdateAttraction
    \/ GeneratePageLinks
    \/ ForLink
    \/ Get
    \/ SleepReload
    \/ Loads
    \/ NextTraverser
    \/ Reget
    \/ ForReviews
    \/ ForR
    \/ UpdateUser
    \/ UpdateReview
    \/ SleepPage
    \/ SetScraped
    \/ Kill
    \/ Restart

Spec == Init /\ [][Next]_vars

\* ------------------------------------------------------------- one page
\* Page data of many shapes, for the runs that scrape a single page.
MaxEntries == 2

RecordA == RawRecord(1, 901, {})
RecordB == RawRecord(11, 902, {"userProfile"})
RecordC == RawRecord(21, 901, {"hometown"})
ReviewsOf(val) == Dict(<<Entry("reviews", val)>>)

\* The values an entry of the top-level object may hold.
EntryValues ==
    { List(<<>>),
      List(<<RecordA, RecordB>>),
      Num(1),
      ReviewsOf(List(<<RecordA>>)),
      ReviewsOf(List(<<>>)),
      Dict(<<Entry("a", ReviewsOf(List(<<RecordC>>)))>>),
      List(<<ReviewsOf(List(<<RecordB>>)), Num(1), ReviewsOf(List(<<>>))>>),
      ReviewsOf(ReviewsOf(List(<<>>))),
      Dict(<<Entry("reviews", List(<<RecordC>>)),
             Entry("a", ReviewsOf(List(<<RecordA>>)))>>) }

TopKeys == {"reviews", "a", "b"}

\* The entry sequences of an object: up to MaxEntries entries, no key twice.
EntrySeqs ==
    UNION { { s \in [1..n -> { Entry(k, val) : k \in TopKeys, val \in EntryValues }] :
                \A i, j \in 1..n : i # j => s[i].k # s[j].k } : n \in 0..MaxEntries }

ShapeBlobs == { Dict(<<Entry("pageManifest", Dict(<<>>))>> \o s) : s \in EntrySeqs }

\* One list of two records, one of which lacks some keys.
OptionalKeys ==
    {"userProfile", "route", "url", "hometown", "contributionCounts", "sumAllUgc",
     "helpfulVote"}
MissingSets ==
    (SUBSET OptionalKeys) \cup { {RequiredKeys[i]} : i \in 1..Len(RequiredKeys) }
RecordBlobs ==
    UNION { { Dict(<<Entry("pageManifest", Dict(<<>>)),
                     Entry("reviews", List(<<RawRecord(1, 901, m),
                                             RawRecord(11, 902, {})>>))>>),
              Dict(<<Entry("pageManifest", Dict(<<>>)),
                     Entry("reviews", List(<<RawRecord(1, 901, {}),
                                             RawRecord(11, 902, m)>>))>>) } :
            m \in MissingSets }

PageBlobs == ShapeBlobs \cup RecordBlobs \cup { PageBlob(1, i) : i \in 0..2 }

\* Attraction 1 is pending, with one review page, any of PageBlobs, and a
\* location or none; the other attractions are marked scraped already.
InitPage ==
    /\ site \in { [id \in Attrs |->
                     [location |-> IF id = 1 THEN loc ELSE Location(id),
                      num_reviews |-> Num(id + 10),
                      pages |-> IF id = 1 THEN <<blob>> ELSE <<>>]] :
                  blob \in PageBlobs, loc \in {None, Location(1)} }
    /\ attr_types = AllSelector
    /\ attractions = [id \in Attrs |-> NewRow(id # 1)]
    /\ InitRun

SpecPage == InitPage /\ [][Next]_vars

\* ------------------------------------------------------------- selectors
\* The scraper constructed with any selector: "all", the empty string, the
\* empty tuple, tuples of one and two categories, and the constructor's
\* default, which is a string.
Selectors ==
    { AllSelector, StrSelector("", 0), TupleSelector(<<>>),
      TupleSelector(<<"Museums">>), TupleSelector(<<"Museums", "Tours">>),
      StrSelector("Sights & Landmarks", 18) }

InitSelector ==
    /\ site \in Sites
    /\ attr_types \in Selectors
    /\ attractions = [id \in Attrs |-> NewRow(FALSE)]
    /\ InitRun

SpecSelector == InitSelector /\ [][Next]_vars

\* ------------------------------------------------------------- claims
PageIndices(id) == { i - 1 : i \in 1..Len(site[id].pages) }
InScrapePage ==
    pc \in {"get", "sleep_reload", "loads", "next_traverser", "reget", "for_reviews",
            "for_r", "update_user", "update_review"}
RowsOf(id) == { reviewsTbl[i] : i \in { j \in 1..Len(reviewsTbl) :
                                         reviewsTbl[j].attr_ID = Num(id) } }
Stored(id) == \E i \in 1..Len(reviewsTbl) : reviewsTbl[i].ID = id
NoDuplicateIds ==
    \A i, j \in 1..Len(reviewsTbl) : i # j => reviewsTbl[i].ID # reviewsTbl[j].ID

\* C1: in a run set_scraped is issued at most once per attraction, and an
\* attraction is marked scraped only when scrape_page has returned for every
\* one of its page links; set_scraped is issued only from there.
C1_ScrapedOnceAfterAllPages ==
    /\ \A id \in Attrs :
         /\ scrapedCalls[id] <= 1
         /\ attractions[id].scraped => pagesDone[id] = PageIndices(id)
    /\ pc = "set_scraped" => /\ pagesDone[a.ID] = { i - 1 : i \in 1..Len(links) }
                             /\ Len(links) = number_of_pages
                             /\ ~attractions[a.ID].scraped

\* C1 witness: an attraction with MaxPages pages has been marked scraped.
C1_Witness ==
    \E id \in Attrs :
        /\ attractions[id].scraped
        /\ scrapedCalls[id] = 1
        /\ Len(site[id].pages) = MaxPages
        /\ pagesDone[id] = 0..(MaxPages - 1)

\* The point ST_MakePoint(lon, lat) stored for a location (lat, lon).
StoredPoint(loc) == List(<<loc.e[2].val, loc.e[1].val>>)
MetadataStored(id) ==
    /\ site[id].location # None
    /\ attractions[id].geom = StoredPoint(site[id].location)
    /\ attractions[id].num_reviews = JsonDumps(site[id].num_reviews)

\* C2: whenever a page of attraction a is being fetched or mapped, and
\* whenever a review row of a is stored, the location and review count the
\* detail extractor returned for a are stored already.
C2_MetadataBeforePagesAndReviews ==
    /\ InScrapePage =>
          /\ MetadataStored(a.ID)
          /\ a.location = site[a.ID].location
          /\ a.num_reviews = site[a.ID].num_reviews
    /\ \A i \in 1..Len(reviewsTbl) : MetadataStored(reviewsTbl[i].attr_ID.v)

\* C2 witness: the run was terminated after a review of an attraction was
\* written and before the attraction was marked scraped.
C2_Witness ==
    /\ pc = "killed"
    /\ Len(reviewsTbl) > 0
    /\ ~attractions[reviewsTbl[1].attr_ID.v].scraped
    /\ MetadataStored(reviewsTbl[1].attr_ID.v)

C4_ExtractionFailureNeverRaises ==
    ~(pc = "raised" /\ exc.type \in {"AttributeError", "JSONDecodeError"})

\* C5: no GET of scrape_page ends it with an exception: neither a transport
\* failure nor an extraction failure of a response fetched after an
\* empty-tree anomaly.
C5_RetryFetchNeverRaises ==
    ~(pc = "raised" /\ exc.line \in {239, 240, 242})

\* The records scrape_page maps on a page with data blob: those of the
\* yielded lists, in order.
RECURSIVE RecordsOf(_)
RecordsOf(lists) ==
    IF Len(lists) = 0 THEN <<>>
    ELSE (IF Head(lists).t = "list"
          THEN [i \in 1..Len(Head(lists).e) |-> Head(lists).e[i].val]
          ELSE <<>>)
         \o RecordsOf(Tail(lists))

\* The review rows an uninterrupted run leaves for attraction id.
ExpectedRows(id) ==
    UNION { { MapReview(RecordsOf(traverse(site[id].pages[i]))[k], id) :
                k \in 1..Len(RecordsOf(traverse(site[id].pages[i]))) } :
            i \in 1..Len(site[id].pages) }

Pending == { id \in Attrs : ~attractions[id].scraped }

\* C10: only set_scraped marks an attraction scraped, so a run that ended
\* before it leaves the attraction unscraped; the next run's query returns
\* every unscraped attraction, among them the one left partially written;
\* when a run returns, the rows of every attraction hold exactly the rows an
\* uninterrupted run writes for it, no id twice.
C10_ResumeAfterTermination ==
    [][ /\ \A id \in Attrs :
              attractions'[id].scraped # attractions[id].scraped =>
                 pc = "set_scraped" /\ a.ID = id /\ attractions'[id].scraped
        /\ (pc = "do_scrape" /\ pc' = "fetchone") =>
              /\ { cursor'[i] : i \in DOMAIN cursor' } = Pending
              /\ \A p \in partial : p.id \in Pending
        /\ pc' = "returned" =>
              /\ Pending' = {}
              /\ \A id \in Attrs : RowsOf(id)' = ExpectedRows(id)
              /\ NoDuplicateIds' ]_vars

\* C10 witness: a run returned after the run before it had ended with only
\* some of an attraction's rows written.
C10_Witness ==
    /\ pc = "returned"
    /\ \E p \in partial :
          /\ p.rows < Cardinality(ExpectedRows(p.id))
          /\ attractions[p.id].scraped
          /\ RowsOf(p.id) = ExpectedRows(p.id)

\* ---- the candidate lists of a value, by the paths that lead to them
\* The index paths of val: <<i, j, ...>> is entry j of entry i's value.
RECURSIVE PathsOf(_)
PathsOf(val) ==
    {<<>>} \cup UNION { { <<i>> \o p : p \in PathsOf(val.e[i].val) } :
                         i \in 1..Len(val.e) }
RECURSIVE EntryAt(_, _)
EntryAt(val, p) ==
    IF Len(p) = 1 THEN val.e[p[1]] ELSE EntryAt(val.e[p[1]].val, Tail(p))

\* p ends at an entry keyed "reviews" and passes through no other such entry.
IsYieldPath(val, p) ==
    /\ Len(p) > 0
    /\ EntryAt(val, p).k = "reviews"
    /\ \A n \in 1..(Len(p) - 1) : EntryAt(val, SubSeq(p, 1, n)).k # "reviews"

\* Depth-first order: entry order at the first index where the paths differ.
Before(p, q) ==
    \E n \in 1..Len(p) :
        /\ n <= Len(q)
        /\ p[n] < q[n]
        /\ \A m \in 1..(n - 1) : p[m] = q[m]
RECURSIVE InOrder(_)
InOrder(ps) ==
    IF ps = {} THEN <<>>
    ELSE LET first == CHOOSE p \in ps : \A q \in ps \ {p} : Before(p, q)
         IN  <<first>> \o InOrder(ps \ {first})
YieldPaths(val) == InOrder({ p \in PathsOf(val) : IsYieldPath(val, p) })
ExpectedYield(val) ==
    [n \in 1..Len(YieldPaths(val)) |-> EntryAt(val, YieldPaths(val)[n]).val]

RECURSIVE OccursReviews(_)
OccursReviews(val) ==
    \E i \in 1..Len(val.e) : val.e[i].k = "reviews" \/ OccursReviews(val.e[i].val)

EmptyLists(lists) == { i \in 1..Len(lists) : lists[i] = List(<<>>) }
ReviewsMessages == { i \in 1..Len(log) : log[i].info = "reviews" }

\* The example of the specification.
SpecExample ==
    Dict(<<Entry("a", ReviewsOf(List(<<Num(1), Num(2)>>))),
           Entry("b", ReviewsOf(List(<<>>)))>>)

\* C6: after the peek scrape_page fetches again exactly when the key
\* "reviews" occurs nowhere in the blob; otherwise it maps without another
\* fetch. An empty yielded list writes nothing and prints one "reviews"
\* message; when scrape_page returns there is one such message per empty
\* list and one review handed on per record of the other lists.
C6_RetryOnlyOnZeroLists ==
    [][ /\ (pc = "next_traverser" /\ pc' # "killed") =>
              /\ ~OccursReviews(data) => pc' = "reget"
              /\ OccursReviews(data) => pc' = "for_reviews" /\ data' = data
        /\ (pc = "for_reviews" /\ pc' = "for_reviews" /\ reviews' = List(<<>>)) =>
              /\ reviewsTbl' = reviewsTbl
              /\ written' = written
              /\ log' = Append(log, MissingInfo("reviews", a.ID, index, -2, link))
        /\ (pc = "for_reviews" /\ pc' = "sleep_page") =>
              /\ Cardinality(ReviewsMessages) =
                    Cardinality(EmptyLists(ExpectedYield(data)))
              /\ Len(written) = Len(RecordsOf(ExpectedYield(data))) ]_vars

\* C6 witness: scrape_page returned for a blob whose first yielded list is
\* empty and which yields a list with records as well.
C6_Witness ==
    /\ pc = "sleep_page"
    /\ Len(ExpectedYield(data)) >= 2
    /\ ExpectedYield(data)[1] = List(<<>>)
    /\ Len(written) > 0
    /\ Cardinality(ReviewsMessages) >= 1

\* Every yielded value is a list of objects that hold the required keys.
WellFormed(blob) ==
    /\ OccursReviews(blob)
    /\ \A n \in 1..Len(ExpectedYield(blob)) :
          /\ ExpectedYield(blob)[n].t = "list"
          /\ \A i \in 1..Len(ExpectedYield(blob)[n].e) :
                /\ ExpectedYield(blob)[n].e[i].val.t = "dict"
                /\ \A k \in 1..Len(RequiredKeys) :
                      HasKey(ExpectedYield(blob)[n].e[i].val, RequiredKeys[k])

\* C7: when scrape_page returns for a well-formed page, the reviews it handed
\* to update_review are, one for one and in order, the records of the
\* yielded lists in yield order, each carrying the caller's attraction id.
C7_MappedRecordsInSourceOrder ==
    (pc = "sleep_page" /\ WellFormed(data)) =>
        LET recs == RecordsOf(ExpectedYield(data))
        IN  /\ Len(written) = Len(recs)
            /\ \A n \in 1..Len(recs) :
                  /\ written[n].ID = ValueAt(recs[n], "id")
                  /\ written[n].title = ValueAt(recs[n], "title")
                  /\ written[n].rating = ValueAt(recs[n], "rating")
                  /\ written[n].full = ValueAt(recs[n], "text")
                  /\ written[n].date = ValueAt(recs[n], "publishedDate")
                  /\ written[n].attr_ID = Num(a.ID)

\* C7 witness: a well-formed page with an empty list between lists with
\* records has been mapped.
C7_Witness ==
    /\ pc = "sleep_page"
    /\ WellFormed(data)
    /\ Len(written) >= 3
    /\ \E i, j, k \in 1..Len(ExpectedYield(data)) :
          /\ i < j /\ j < k
          /\ ExpectedYield(data)[i] # List(<<>>)
          /\ ExpectedYield(data)[j] = List(<<>>)
          /\ ExpectedYield(data)[k] # List(<<>>)

\* C8: the generator yields the values of the entries keyed "reviews" that
\* are reached through no other such entry, in depth-first entry order; it
\* yields nothing when the key occurs nowhere and nothing for a scalar; the
\* specification's example yields [1,2], then [].
C8_TraverseYields ==
    /\ pc = "next_traverser" =>
          /\ traverser = ExpectedYield(data)
          /\ ~OccursReviews(data) => traverser = <<>>
    /\ traverse(SpecExample) = <<List(<<Num(1), Num(2)>>), List(<<>>)>>
    /\ traverse(Num(1)) = <<>>
    /\ traverse(EmptyTreeBlob) = <<>>

\* C8 witness: a generator over a blob that yields several values, one of
\* which holds a "reviews" entry of its own.
C8_Witness ==
    /\ pc = "next_traverser"
    /\ Len(traverser) >= 3
    /\ \E i \in 1..Len(traverser) : OccursReviews(traverser[i])

\* C9: a record without userProfile (or without its route url) is mapped
\* without raising, to a Review and a User whose profile is None; the user
\* write inserts nothing for it and the review write is issued; a user row
\* is inserted only for a profile that is present.
C9_MissingProfileSkipsUser ==
    [][ LET r == reviews.e[ridx + 1].val
        IN  /\ (/\ pc = "for_r" /\ pc' # "killed" /\ ridx < Len(reviews.e)
                /\ ~IsExc(RequiredExc(r)) /\ IsExc(ProfileUrl(r))) =>
                  /\ pc' = "update_user"
                  /\ review'.user_profile = None
                  /\ user'.profile = None
                  /\ review'.ID = ValueAt(r, "id")
            /\ (pc = "update_user" /\ pc' = "update_review") =>
                  /\ user.profile = None => usersTbl' = usersTbl
                  /\ usersTbl' # usersTbl =>
                        /\ ~IsExc(ProfileUrl(r))
                        /\ usersTbl' = Append(usersTbl, user)
                        /\ user.profile = ProfileUrl(r)
            /\ (pc = "update_review" /\ pc' = "for_r" /\ IsExc(ProfileUrl(r))) =>
                  /\ review.user_profile = None
                  /\ written' = Append(written, review)
                  /\ Stored(review.ID)'
                  /\ usersTbl' = usersTbl
            /\ \A i \in 1..Len(usersTbl') : usersTbl'[i].profile # None ]_vars

\* C9 witness: the first record of a page had no profile url; its review is
\* stored with user_profile None and the users table is still empty.
C9_Witness ==
    /\ pc = "for_r"
    /\ ridx = 1
    /\ Len(written) = 1
    /\ written[1].user_profile = None
    /\ \E i \in 1..Len(reviewsTbl) : reviewsTbl[i] = written[1]
    /\ usersTbl = <<>>

\* C11: a step that issues a GET of a review page (the one of the first loop
\* or the one of the empty-tree loop) is never taken when the process's last
\* GET has not been followed by a sleep.
C11_SleepBetweenGets ==
    [][ (pc \in {"get", "reget"} /\ pc' # "killed") =>
            lastIo \notin {"get", "reget"} ]_vars

\* C12: on a site all of whose pages are well-formed, a do_scrape that has
\* ended, by returning or by an exception, has marked every attraction
\* scraped, each by one set_scraped call at most.
C12_EndsWithAllScraped ==
    pc \in {"returned", "raised"} =>
        \A id \in Attrs : attractions[id].scraped /\ scrapedCalls[id] <= 1

\* C13: with page count n reported for the attraction, scrape_page is entered
\* for page index i only when pages 0..i-1 are done and i < n, with the link
\* of page i of that attraction; the loop ends only when pages 0..n-1 are
\* done; for n = 0 it ends at once, with no page fetched.
C13_PagesInAscendingOrder ==
    [][ /\ (pc = "for_link" /\ pc' = "get") =>
              /\ index < number_of_pages
              /\ link.page = index
              /\ link.attr = a.ID
              /\ pagesDone[a.ID] = 0..(index - 1)
        /\ (pc = "for_link" /\ pc' = "set_scraped") =>
              /\ index = number_of_pages
              /\ pagesDone[a.ID] = 0..(number_of_pages - 1)
        /\ (pc = "for_link" /\ pc' # "killed" /\ number_of_pages = 0) =>
              pc' = "set_scraped" /\ lastIo' = lastIo
        /\ pc = "for_link" => number_of_pages = Len(site[a.ID].pages) ]_vars

\* C13 witness: the loop has ended for an attraction of MaxPages pages.
C13_Witness ==
    /\ pc = "set_scraped"
    /\ number_of_pages = MaxPages
    /\ index = MaxPages
    /\ pagesDone[a.ID] = 0..(MaxPages - 1)

\* C14: with the selector "all" and with an empty selector alike,
\* read_attractions leaves in the cursor exactly the attractions that are not
\* marked scraped, and the loop of do_scrape starts on them.
C14_AllOrEmptySelectsUnscraped ==
    [][ (/\ pc = "do_scrape" /\ pc' # "killed"
         /\ (attr_types = AllSelector \/ attr_types.len = 0)) =>
            /\ pc' = "fetchone"
            /\ { cursor'[i] : i \in DOMAIN cursor' } = Pending ]_vars

\* The value found in x along a path of keys, Absent when a key of the path
\* is missing or an object is not where one is expected.
Absent == [t |-> "absent", v |-> 0, e |-> <<>>]
RECURSIVE Lookup(_, _)
Lookup(x, path) ==
    IF Len(path) = 0 THEN x
    ELSE IF x.t = "dict" /\ HasKey(x, Head(path))
    THEN Lookup(ValueAt(x, Head(path)), Tail(path))
    ELSE Absent
OrNone(x) == IF x = Absent THEN None ELSE x
DumpsOrNone(x) == IF x = Absent THEN None ELSE JsonDumps(x)
HasRequired(r) ==
    r.t = "dict" /\ \A k \in 1..Len(RequiredKeys) : HasKey(r, RequiredKeys[k])

\* C15: a record that holds the required fields is mapped whatever optional
\* fields it lacks: each of the four optional fields is None when its path
\* is missing and the record's value otherwise, whatever the other three
\* are; the user write and then the review write follow, the review is
\* stored, and the loop goes on to the end of the list.
C15_OptionalFieldsIndependent ==
    [][ LET r == reviews.e[ridx + 1].val
        IN  /\ (/\ pc = "for_r" /\ pc' # "killed" /\ ridx < Len(reviews.e)
                /\ HasRequired(r)) =>
                  /\ pc' = "update_user"
                  /\ review'.user_profile =
                        OrNone(Lookup(r, <<"userProfile", "route", "url">>))
                  /\ user'.profile =
                        OrNone(Lookup(r, <<"userProfile", "route", "url">>))
                  /\ user'.location =
                        DumpsOrNone(Lookup(r, <<"userProfile", "hometown">>))
                  /\ user'.contributions =
                        OrNone(Lookup(r, <<"userProfile", "contributionCounts",
                                           "sumAllUgc">>))
                  /\ user'.helpful_votes =
                        OrNone(Lookup(r, <<"userProfile", "contributionCounts",
                                           "helpfulVote">>))
            /\ (pc = "update_user" /\ pc' # "killed") => pc' = "update_review"
            /\ (pc = "update_review" /\ pc' # "killed") =>
                  /\ pc' = "for_r"
                  /\ written' = Append(written, review)
                  /\ Stored(review.ID)'
                  /\ ridx' = ridx + 1
            /\ (pc = "for_r" /\ pc' = "for_reviews") => ridx = Len(reviews.e) ]_vars

\* C15 witness: a page of two records has been mapped to the end; the first
\* record lacked two of the optional fields and held the other two.
C15_Witness ==
    /\ pc = "sleep_page"
    /\ Len(written) = 2
    /\ \E i \in 1..Len(usersTbl) :
          /\ usersTbl[i].profile = written[1].user_profile
          /\ usersTbl[i].location = None
          /\ usersTbl[i].contributions # None
          /\ usersTbl[i].helpful_votes = None

UserStored(profile) == \E i \in 1..Len(usersTbl) : usersTbl[i].profile = profile

\* C16: the first user write for a profile stores the user as it is; no
\* step ever changes a stored users row; a write for a stored profile
\* changes nothing; no profile is stored twice.
C16_UserFirstWriteWins ==
    [][ /\ \A i \in 1..Len(usersTbl) :
              Len(usersTbl') >= i /\ usersTbl'[i] = usersTbl[i]
        /\ (pc = "update_user" /\ UserStored(user.profile)) => usersTbl' = usersTbl
        /\ (/\ pc = "update_user" /\ pc' # "killed" /\ user.profile # None
            /\ ~UserStored(user.profile)) => usersTbl' = Append(usersTbl, user)
        /\ \A i, j \in 1..Len(usersTbl') :
              i # j => usersTbl'[i].profile # usersTbl'[j].profile ]_vars

\* C16 witness: a user write has been issued for a profile whose stored row
\* lacks the location, by a record that carries the location; the row is as
\* it was.
C16_Witness ==
    /\ pc = "update_review"
    /\ user.profile # None
    /\ user.location # None
    /\ \E i \in 1..Len(usersTbl) :
          /\ usersTbl[i].profile = user.profile
          /\ usersTbl[i].location = None

\* C17: at a record that lacks a required field the run ends with an
\* exception: that step writes nothing, the records of the list before it
\* are the last ones written and are stored, the attraction is not marked
\* scraped; after the exception the run takes no further step, so nothing
\* more is written and set_scraped is not issued; only a new run follows.
C17_MissingRequiredAborts ==
    [][ LET r == reviews.e[ridx + 1].val
        IN  /\ (/\ pc = "for_r" /\ pc' # "killed" /\ ridx < Len(reviews.e)
                /\ ~HasRequired(r)) =>
                  /\ pc' = "raised"
                  /\ exc'.type \in {"KeyError", "TypeError"}
                  /\ UNCHANGED <<dbVars, written, scrapedCalls, a>>
                  /\ ~attractions[a.ID].scraped
                  /\ scrapedCalls[a.ID] = 0
                  /\ Len(written) >= ridx
                  /\ \A k \in 1..ridx :
                        /\ written[Len(written) - ridx + k].ID =
                              ValueAt(reviews.e[k].val, "id")
                        /\ Stored(ValueAt(reviews.e[k].val, "id"))
            /\ pc = "raised" =>
                  /\ pc' = "do_scrape"
                  /\ runs' = runs + 1
                  /\ UNCHANGED dbVars ]_vars

\* C17 witness: the second record of a list lacked a required field; the
\* run has ended with the exception, the first record stored and the
\* attraction unscraped.
C17_Witness ==
    /\ pc = "raised"
    /\ exc.line = 251
    /\ exc.type = "KeyError"
    /\ ridx = 1
    /\ Len(written) = 1
    /\ Stored(written[1].ID)
    /\ ~attractions[a.ID].scraped

\* C18: when the peek finds a value, the for loop starts on every list the
\* blob yields, the first one included, and the blob is the one decoded from
\* the last response; when scrape_page returns, the reviews it handed on are
\* the records of that blob's lists, one for one, and of no other response.
C18_PeekLosesNothing ==
    [][ /\ (pc = "next_traverser" /\ pc' = "for_reviews") =>
              /\ data = text.blob
              /\ data' = data
              /\ Len(reviewsIter') > 0
              /\ reviewsIter' = ExpectedYield(data)
        /\ (pc = "for_reviews" /\ pc' = "sleep_page") =>
              LET recs == RecordsOf(ExpectedYield(data))
              IN  /\ data = text.blob
                  /\ Len(written) = Len(recs)
                  /\ \A n \in 1..Len(recs) :
                        written[n].ID = ValueAt(recs[n], "id") ]_vars

\* C18 witness: after an empty-tree response the page was fetched again, and
\* scrape_page returned with the first record of the first yielded list
\* handed on first.
C18_Witness ==
    /\ pc = "sleep_page"
    /\ lastIo = "reget"
    /\ Len(written) > 0
    /\ Len(ExpectedYield(data)) > 1
    /\ ExpectedYield(data)[1].t = "list"
    /\ Len(ExpectedYield(data)[1].e) > 0
    /\ written[1].ID = ValueAt(ExpectedYield(data)[1].e[1].val, "id")

\* C19: the user write of a record comes before its review write: the step
\* that issues the user write writes no review, and the review write of a
\* review with a profile is issued only once the user write for that profile
\* has been issued, so that the profile is stored; hence every stored review
\* with a profile has its user stored.
C19_UserWriteBeforeReviewWrite ==
    [][ /\ (pc = "update_user" /\ pc' # "killed") =>
              /\ pc' = "update_review"
              /\ reviewsTbl' = reviewsTbl
              /\ written' = written
              /\ user.profile = review.user_profile
              /\ user.profile # None =>
                    \E j \in 1..Len(usersTbl') : usersTbl'[j].profile = user.profile
        /\ (pc = "update_review" /\ pc' # "killed" /\ review.user_profile # None) =>
              /\ user.profile = review.user_profile
              /\ UserStored(review.user_profile)
        /\ \A i \in 1..Len(reviewsTbl') :
              reviewsTbl'[i].user_profile # None =>
                 \E j \in 1..Len(usersTbl') :
                    usersTbl'[j].profile = reviewsTbl'[i].user_profile ]_vars

\* C19 witness: a review with a profile has been written and stored, its
\* user stored with it.
C19_Witness ==
    /\ pc = "for_r"
    /\ Len(written) > 0
    /\ written[Len(written)].user_profile # None
    /\ \E i \in 1..Len(reviewsTbl) : reviewsTbl[i] = written[Len(written)]
    /\ UserStored(written[Len(written)].user_profile)

=============================================================================
